---- MODULE Spec2Model ----
(***************************************************************************)
(* pendulum.tz.timezone: the process-wide zone cache (Timezone.load) and   *)
(* the wall-clock <-> instant conversions of a zone (Timezone._normalize,  *)
(* Timezone._convert, Timezone.convert).                                   *)
(*                                                                         *)
(* Time is counted in whole seconds (datetimes carry no microseconds), so  *)
(* a naive datetime is its number of seconds since 1970-01-01 00:00:00.    *)
(***************************************************************************)
EXTENDS Integers, Sequences, FiniteSets, TLC

VARIABLES
    cache,        \* Timezone._cache: name -> instance (NoZone: no entry)
    zones,        \* every Timezone instance constructed so far: zones[i] is the name of instance i
    loaderCalls,  \* history: how often Loader.load(name) was invoked
    started,      \* history: how often Timezone.load(name) was called
    handedOut,    \* history: the instances Timezone.load(name) has returned
    pc,           \* per thread: its position inside Timezone.load
    tname,        \* per thread: the argument `name`
    tzone,        \* per thread: the local variable `zone`
    tres,         \* per thread: what the call returned or raised
    snap,         \* history, per thread: the cache as it was when the call started
    transitions,  \* Timezone._transitions of the zone under test
    default_transition_type,  \* Timezone._default_transition_type
    op,           \* the method last called on the zone ("none": no call pending)
    arg,          \* its datetime argument
    res           \* its outcome

loadVars == <<cache, zones, loaderCalls, started, handedOut, pc, tname, tzone, tres, snap>>
tzVars == <<transitions, default_transition_type, op, arg, res>>
vars == <<cache, zones, loaderCalls, started, handedOut, pc, tname, tzone, tres, snap,
          transitions, default_transition_type, op, arg, res>>

---------------------------------------------------------------------------
(* Bounds *)

NumThreads == 2
MaxCalls == 4
MaxTransitions == 3
MinGap == 4
Margin == 4
FirstInstant == 0

Threads == 1..NumThreads

Max(a, b) == IF a >= b THEN a ELSE b
Min(a, b) == IF a <= b THEN a ELSE b

---------------------------------------------------------------------------
(* Timezone.load and the cache *)

Names == {"Europe/Paris", "America/Toronto", "Mars/Olympus"}

\* Loader.load(name) has data for the name; it raises otherwise.
LoaderHas(n) == n # "Mars/Olympus"

NoZone == 0
ZoneNotFound == -1

\* `name not in cls._cache`, negated
InCacheNever(n) == FALSE
InCache(n) == cache[n] # NoZone

\* The tz-side variables, untouched by load.
TzInitFixed ==
    /\ transitions = <<>>
    /\ default_transition_type = [utc_offset |-> 0, is_dst |-> FALSE, abbrev |-> "GMT"]
    /\ op = "none"
    /\ arg = [wall |-> 0, tzinfo |-> <<>>]
    /\ res = [kind |-> "none", dt |-> [wall |-> 0, tzinfo |-> <<>>], unix_time |-> 0,
              transition_type |-> [utc_offset |-> 0, is_dst |-> FALSE, abbrev |-> "GMT"]]

LoadInit ==
    /\ cache = [n \in Names |-> NoZone]
    /\ zones = <<>>
    /\ loaderCalls = [n \in Names |-> 0]
    /\ started = [n \in Names |-> 0]
    /\ handedOut = [n \in Names |-> {}]
    /\ pc = [t \in Threads |-> "idle"]
    /\ tname = [t \in Threads |-> "Europe/Paris"]
    /\ tzone = [t \in Threads |-> NoZone]
    /\ tres = [t \in Threads |-> NoZone]
    /\ snap = [t \in Threads |-> [n \in Names |-> NoZone]]

TotalStarted == started["Europe/Paris"] + started["America/Toronto"] + started["Mars/Olympus"]

\* A caller enters Timezone.load(name).
Call(t, n) ==
    /\ pc[t] = "idle"
    /\ TotalStarted < MaxCalls
    /\ pc' = [pc EXCEPT ![t] = "check"]
    /\ tname' = [tname EXCEPT ![t] = n]
    /\ tzone' = [tzone EXCEPT ![t] = NoZone]
    /\ tres' = [tres EXCEPT ![t] = NoZone]
    /\ started' = [started EXCEPT ![n] = @ + 1]
    /\ snap' = [snap EXCEPT ![t] = cache]
    /\ UNCHANGED <<cache, zones, loaderCalls, handedOut>>
    /\ UNCHANGED tzVars

\* The same, when no other call is in progress (non-overlapping calls).
SeqCall(t, n) ==
    /\ \A u \in Threads : pc[u] = "idle"
    /\ Call(t, n)

\* if name not in cls._cache:
Check(t) ==
    /\ pc[t] = "check"
    /\ pc' = [pc EXCEPT ![t] = IF InCache(tname[t]) THEN "return" ELSE "load"]
    /\ UNCHANGED <<cache, zones, loaderCalls, started, handedOut, tname, tzone, tres, snap>>
    /\ UNCHANGED tzVars

\* (transitions, transition_types, default_transition_type) = Loader.load(name)
LoaderLoad(t) ==
    /\ pc[t] = "load"
    /\ LoaderHas(tname[t])
    /\ loaderCalls' = [loaderCalls EXCEPT ![tname[t]] = @ + 1]
    /\ pc' = [pc EXCEPT ![t] = "construct"]
    /\ UNCHANGED <<cache, zones, started, handedOut, tname, tzone, tres, snap>>
    /\ UNCHANGED tzVars

\* A buggy variant: the failure leaves a half-built entry in the cache.
LoaderRaiseCaching(t) ==
    /\ pc[t] = "load"
    /\ ~LoaderHas(tname[t])
    /\ loaderCalls' = [loaderCalls EXCEPT ![tname[t]] = @ + 1]
    /\ zones' = Append(zones, tname[t])
    /\ cache' = [cache EXCEPT ![tname[t]] = Len(zones) + 1]
    /\ tres' = [tres EXCEPT ![t] = ZoneNotFound]
    /\ pc' = [pc EXCEPT ![t] = "raised"]
    /\ UNCHANGED <<started, handedOut, tname, tzone, snap>>
    /\ UNCHANGED tzVars

\* Loader.load(name) raises; load has no handler, the exception reaches the caller.
LoaderRaise(t) ==
    /\ pc[t] = "load"
    /\ ~LoaderHas(tname[t])
    /\ loaderCalls' = [loaderCalls EXCEPT ![tname[t]] = @ + 1]
    /\ tres' = [tres EXCEPT ![t] = ZoneNotFound]
    /\ pc' = [pc EXCEPT ![t] = "raised"]
    /\ UNCHANGED <<cache, zones, started, handedOut, tname, tzone, snap>>
    /\ UNCHANGED tzVars

\* zone = cls(name, transitions, transition_types, default_transition_type)
Construct(t) ==
    /\ pc[t] = "construct"
    /\ zones' = Append(zones, tname[t])
    /\ tzone' = [tzone EXCEPT ![t] = Len(zones) + 1]
    /\ pc' = [pc EXCEPT ![t] = "store"]
    /\ UNCHANGED <<cache, loaderCalls, started, handedOut, tname, tres, snap>>
    /\ UNCHANGED tzVars

\* cls._cache[name] = zone
Store(t) ==
    /\ pc[t] = "store"
    /\ cache' = [cache EXCEPT ![tname[t]] = tzone[t]]
    /\ pc' = [pc EXCEPT ![t] = "return"]
    /\ UNCHANGED <<zones, loaderCalls, started, handedOut, tname, tzone, tres, snap>>
    /\ UNCHANGED tzVars

\* return cls._cache[name]
Return(t) ==
    /\ pc[t] = "return"
    /\ tres' = [tres EXCEPT ![t] = cache[tname[t]]]
    /\ handedOut' = [handedOut EXCEPT ![tname[t]] = @ \cup {cache[tname[t]]}]
    /\ pc' = [pc EXCEPT ![t] = "returned"]
    /\ UNCHANGED <<cache, zones, loaderCalls, started, tname, tzone, snap>>
    /\ UNCHANGED tzVars

\* The caller goes on with the result or the exception.
Finish(t) ==
    /\ pc[t] \in {"returned", "raised"}
    /\ pc' = [pc EXCEPT ![t] = "idle"]
    /\ UNCHANGED <<cache, zones, loaderCalls, started, handedOut, tname, tzone, tres, snap>>
    /\ UNCHANGED tzVars

LoadStep(t) ==
    \/ Check(t)
    \/ LoaderLoad(t)
    \/ LoaderRaise(t)
    \/ Construct(t)
    \/ Store(t)
    \/ Return(t)
    \/ Finish(t)

\* Threads calling Timezone.load concurrently.
Init == LoadInit /\ TzInitFixed

Next ==
    \/ \E t \in Threads, n \in Names : Call(t, n)
    \/ \E t \in Threads : LoadStep(t)

Spec == Init /\ [][Next]_vars

\* Calls to Timezone.load that do not overlap.
NextSeq ==
    \/ \E t \in Threads, n \in Names : SeqCall(t, n)
    \/ \E t \in Threads : LoadStep(t)

SpecSeq == Init /\ [][NextSeq]_vars

---------------------------------------------------------------------------
(* The zone: transition types, transitions, datetimes *)

\* TransitionType(utc_offset, is_dst, abbrev)
TransitionType(utc_offset, is_dst, abbrev) ==
    [utc_offset |-> utc_offset, is_dst |-> is_dst, abbrev |-> abbrev]

\* The transition types the loader hands out: a local mean time, a standard
\* time, a summer time, and a second standard time with the same offset.
Types ==
    { TransitionType(-1, FALSE, "LMT"),
      TransitionType(0, FALSE, "STD"),
      TransitionType(2, TRUE, "DST"),
      TransitionType(0, FALSE, "ALT") }

\* Transition(unix_time, transition_type, pre_time, time, pre_transition_type):
\* time and pre_time are the wall clock at unix_time under the type after and
\* the type before the transition.
Transition(unix_time, transition_type, pre_transition_type) ==
    [ unix_time |-> unix_time,
      transition_type |-> transition_type,
      pre_transition_type |-> pre_transition_type,
      pre_time |-> unix_time + pre_transition_type.utc_offset,
      time |-> unix_time + transition_type.utc_offset ]

\* The distances between consecutive transitions' instants.
Gaps == {MinGap, MinGap + 1}

RECURSIVE InstantAt(_, _)
\* The instant of transition i, the gaps between consecutive instants given.
InstantAt(gaps, i) == IF i = 1 THEN FirstInstant ELSE InstantAt(gaps, i - 1) + gaps[i - 1]

\* The tables Loader.load returns: strictly ascending instants, each
\* transition starting from the type the one before it ended with (the
\* default type before the first), every transition changing the type, and
\* consecutive transitions further apart than any offset change.
LoaderTables(def) ==
    UNION { { [i \in 1..n |-> Transition(InstantAt(gaps, i), types[i],
                                         IF i = 1 THEN def ELSE types[i - 1])]
              : gaps \in [1..(n - 1) -> Gaps],
                types \in { ts \in [1..n -> Types] :
                              /\ n >= 1 => ts[1] # def
                              /\ \A i \in 2..n : ts[i] # ts[i - 1] } }
            : n \in 0..MaxTransitions }

\* A datetime: its wall-clock fields as seconds since 1970-01-01 00:00:00,
\* and its tzinfo (<<>>: None, <<info>>: set).
NaiveDt(wall) == [wall |-> wall, tzinfo |-> <<>>]
AwareDt(wall, info) == [wall |-> wall, tzinfo |-> <<info>>]

\* TimezoneInfo(tz, utc_offset, is_dst, abbrev); utcoffset() is utc_offset.
TimezoneInfo(tz, utc_offset, is_dst, abbrev) ==
    [tz |-> tz, offset |-> utc_offset, is_dst |-> is_dst, abbrev |-> abbrev]

\* UTC = UTCTimezone.tzinfo
UTC == TimezoneInfo("UTC", 0, FALSE, "UTC")

\* Breakdown.local_time(unix_time, transition_type): the calendar fields of
\* unix_time shifted by the type's offset.
LocalTime(unix_time, transition_type) == unix_time + transition_type.utc_offset

NoDt == NaiveDt(0)
NoType == TransitionType(0, FALSE, "GMT")
NoResult == [kind |-> "none", dt |-> NoDt, unix_time |-> 0, transition_type |-> NoType]
ValueError == [kind |-> "ValueError", dt |-> NoDt, unix_time |-> 0, transition_type |-> NoType]

\* _to_local_time(unix_time, transition_type, offset=None); offset is <<>> for
\* None. The outcome also records the instant and the type it was given.
ToLocalTime(unix_time, transition_type, offset) ==
    [ kind |-> "datetime",
      dt |-> AwareDt(LocalTime(unix_time, transition_type),
                     TimezoneInfo("zone",
                                  IF offset # <<>> THEN offset[1]
                                  ELSE transition_type.utc_offset,
                                  transition_type.is_dst,
                                  transition_type.abbrev)),
      unix_time |-> unix_time,
      transition_type |-> transition_type ]

\* `x < transition` for a datetime x: Transition compares by its time.
DtLtTransition(x, tr) == x < tr.time
\* `x < transition` for a number x: Transition compares by its unix_time.
NumLtTransition(x, tr) == x < tr.unix_time

RECURSIVE BisectDt(_, _, _, _)
BisectDt(a, x, lo, hi) ==
    IF lo < hi
    THEN LET mid == (lo + hi) \div 2
         IN IF DtLtTransition(x, a[mid + 1]) THEN BisectDt(a, x, lo, mid)
            ELSE BisectDt(a, x, mid + 1, hi)
    ELSE lo

RECURSIVE BisectNum(_, _, _, _)
BisectNum(a, x, lo, hi) ==
    IF lo < hi
    THEN LET mid == (lo + hi) \div 2
         IN IF NumLtTransition(x, a[mid + 1]) THEN BisectNum(a, x, lo, mid)
            ELSE BisectNum(a, x, mid + 1, hi)
    ELSE lo

\* bisect_right(transitions, dt), a 0-based index
bisect_right_dt(a, x) == BisectDt(a, x, 0, Len(a))
\* bisect_right(self._transitions, unix_time), a 0-based index
bisect_right_num(a, x) == BisectNum(a, x, 0, Len(a))

\* The transition _normalize settles on (`tr` at line 122).
NormalizeTr(dt) ==
    LET begin == transitions[1]
        end == transitions[Len(transitions)]
        idx == Max(0, bisect_right_dt(transitions, dt.wall))
    IN IF dt.wall < begin.time THEN begin
       ELSE IF ~(dt.wall < end.time) THEN end
       ELSE IF idx > 0 /\ dt.wall <= transitions[idx].pre_time
            THEN transitions[idx]       \* pre_tr = self._transitions[idx - 1]
            ELSE transitions[idx + 1]   \* tr = self._transitions[idx]

\* _normalize, past its tzinfo test and with a non-empty table.
NormalizeTable(dt) ==
    LET begin == transitions[1]
        end == transitions[Len(transitions)]
        tr == NormalizeTr(dt)
    IN IF tr = begin
       THEN IF ~(tr.pre_time < dt.wall)
            THEN \* Before first transition, so use the default offset.
                 ToLocalTime(dt.wall - default_transition_type.utc_offset,
                             tr.transition_type,
                             <<default_transition_type.utc_offset>>)
            ELSE \* Skipped time
                 ToLocalTime(tr.unix_time - (tr.pre_time - dt.wall),
                             tr.transition_type, <<>>)
       ELSE IF tr = end
       THEN IF tr.pre_time < dt.wall
            THEN \* After the last transition.
                 ToLocalTime(tr.unix_time + (dt.wall - tr.time), tr.transition_type, <<>>)
            ELSE \* Repeated time
                 ToLocalTime(tr.unix_time + (dt.wall - tr.time), tr.transition_type, <<>>)
       ELSE IF tr.pre_time <= dt.wall /\ dt.wall < tr.time
            THEN \* Skipped time
                 ToLocalTime(tr.unix_time - (tr.pre_time - dt.wall),
                             tr.transition_type, <<>>)
            ELSE IF tr.time <= dt.wall /\ dt.wall <= tr.pre_time
            THEN \* Repeated time
                 ToLocalTime(tr.unix_time + (dt.wall - tr.time), tr.transition_type, <<>>)
            ELSE \* In between transitions: the previous transition's type.
                 LET diff0 == dt.wall - tr.pre_time
                     diff == IF -1 < diff0 /\ diff0 < 0 /\ tr.unix_time < 0
                             THEN diff0 - 1 ELSE diff0
                 IN ToLocalTime(tr.unix_time + diff, tr.pre_transition_type, <<>>)

\* Timezone._normalize(dt)
normalize(dt) ==
    IF dt.tzinfo # <<>>
    THEN ValueError
    ELSE IF transitions = <<>>
    THEN ToLocalTime(dt.wall - default_transition_type.utc_offset,
                     default_transition_type, <<>>)
    ELSE NormalizeTable(dt)

\* Timezone._get_timestamp(dt) for a plain datetime with a tzinfo:
\* (dt - datetime(1970, 1, 1, tzinfo=UTC)).total_seconds()
get_timestamp(dt) == dt.wall - dt.tzinfo[1].offset

\* Timezone._convert(dt), past its tzinfo test.
ConvertBody(dt) ==
    LET unix_time == get_timestamp(dt)
        idx == Max(0, bisect_right_num(transitions, unix_time) - 1)
    IN IF transitions = <<>>
       THEN ToLocalTime(unix_time, default_transition_type, <<>>)
       ELSE ToLocalTime(unix_time, transitions[idx + 1].transition_type, <<>>)

\* A buggy variant: no tzinfo test, an untagged datetime is taken as UTC.
convert_Unchecked(dt) ==
    ConvertBody(IF dt.tzinfo = <<>> THEN AwareDt(dt.wall, UTC) ELSE dt)

\* Timezone._convert(dt)
convert_(dt) ==
    IF dt.tzinfo = <<>>
    THEN ValueError
    ELSE ConvertBody(dt)

\* Timezone.convert(dt)
convert(dt) ==
    IF dt.tzinfo = <<>>
    THEN normalize(dt)
    ELSE convert_(dt)

\* The datetimes the callers pass in.
LastInstantMax == FirstInstant + (MaxTransitions - 1) * (MinGap + 1)
Walls == (FirstInstant - Margin)..(LastInstantMax + Margin)
InputTags == {UTC, TimezoneInfo("+02:00", 2, FALSE, "")}
NaiveInputs == {NaiveDt(w) : w \in Walls}
AwareInputs == {AwareDt(w, info) : w \in Walls, info \in InputTags}
Inputs == NaiveInputs \cup AwareInputs

TzInit ==
    /\ default_transition_type \in Types
    /\ transitions \in LoaderTables(default_transition_type)
    /\ op = "none"
    /\ arg = NoDt
    /\ res = NoResult

\* zone._normalize(dt)
CallNormalize(dt) ==
    /\ op = "none"
    /\ op' = "_normalize"
    /\ arg' = dt
    /\ res' = normalize(dt)
    /\ UNCHANGED <<transitions, default_transition_type>>
    /\ UNCHANGED loadVars

\* zone._convert(dt)
CallConvert_(dt) ==
    /\ op = "none"
    /\ op' = "_convert"
    /\ arg' = dt
    /\ res' = convert_(dt)
    /\ UNCHANGED <<transitions, default_transition_type>>
    /\ UNCHANGED loadVars

\* zone.convert(dt)
CallConvert(dt) ==
    /\ op = "none"
    /\ op' = "convert"
    /\ arg' = dt
    /\ res' = convert(dt)
    /\ UNCHANGED <<transitions, default_transition_type>>
    /\ UNCHANGED loadVars

\* zone._convert(zone._normalize(dt)): the datetime _normalize returned is
\* passed on to _convert; arg stays the naive datetime the caller began with.
CallConvertOfNormalized ==
    /\ op = "_normalize"
    /\ res.kind = "datetime"
    /\ op' = "_convert(_normalize)"
    /\ res' = convert_(res.dt)
    /\ UNCHANGED <<arg, transitions, default_transition_type>>
    /\ UNCHANGED loadVars

\* The caller is done with the outcome.
Done ==
    /\ op # "none"
    /\ op' = "none"
    /\ arg' = NoDt
    /\ res' = NoResult
    /\ UNCHANGED <<transitions, default_transition_type>>
    /\ UNCHANGED loadVars

InitTz == LoadInit /\ TzInit

NextTz ==
    \/ \E dt \in Inputs : CallNormalize(dt)
    \/ \E dt \in Inputs : CallConvert_(dt)
    \/ \E dt \in Inputs : CallConvert(dt)
    \/ CallConvertOfNormalized
    \/ Done

\* One zone, as the loader built it, and calls on it.
SpecTz == InitTz /\ [][NextTz]_vars

---------------------------------------------------------------------------
(* Claims about Timezone.load *)

InstancesOf(n) == {i \in 1..Len(zones) : zones[i] = n}

\* C1: under any interleaving of concurrent load(name) calls, at most one
\* Timezone is ever constructed for a name, and load never hands out two
\* different instances for it.
C1_AtMostOneZonePerName ==
    \A n \in Names :
        /\ Cardinality(InstancesOf(n)) <= 1
        /\ Cardinality(handedOut[n]) <= 1

\* C2: with non-overlapping calls, once load(name) has returned an instance,
\* every later load(name) returns that same instance, the loader is not
\* invoked again, and the cache entry is neither removed nor replaced.
C2_CacheIdentity ==
    \A n \in Names :
        handedOut[n] # {} =>
            /\ handedOut[n] = {cache[n]}
            /\ cache[n] # NoZone
            /\ loaderCalls[n] = 1
            /\ Cardinality(InstancesOf(n)) = 1

\* C2 witness: a second load of a cached name has returned.
C2_Witness ==
    \E t \in Threads :
        /\ pc[t] = "returned"
        /\ started[tname[t]] >= 2
        /\ tres[t] = cache[tname[t]]
        /\ tres[t] # NoZone

\* C3: when the loader has no data for the name, load surfaces the loader's
\* failure, leaves the cache exactly as it was when the call started, and
\* every load of that name invokes the loader again (no stale entry is used).
C3_FailureLeavesCache ==
    \A t \in Threads :
        /\ (pc[t] = "raised" =>
                /\ tres[t] = ZoneNotFound
                /\ cache = snap[t]
                /\ loaderCalls[tname[t]] = started[tname[t]])
        /\ (pc[t] \in {"returned", "raised"} /\ ~LoaderHas(tname[t]) =>
                /\ pc[t] = "raised"
                /\ cache[tname[t]] = NoZone)

\* C3 witness: a second load of a name without data has failed, with other
\* names cached meanwhile.
C3_Witness ==
    \E t \in Threads :
        /\ pc[t] = "raised"
        /\ started[tname[t]] >= 2
        /\ \E n \in Names : cache[n] # NoZone

---------------------------------------------------------------------------
(* Claims about _normalize, _convert and convert *)

NumTransitions == Len(transitions)

\* The outcome was resolved with this type at this instant: the instant and
\* the type handed to _to_local_time, and the tag on the datetime returned.
ResolvedWith(type, instant) ==
    /\ res.kind = "datetime"
    /\ res.unix_time = instant
    /\ res.transition_type = type
    /\ res.dt.tzinfo = <<TimezoneInfo("zone", type.utc_offset, type.is_dst, type.abbrev)>>

\* C4: for every transition t whose wall clock jumps backward (first, middle
\* or last) and every naive value with t.time <= naive <= t.pre_time,
\* _normalize resolves to the later occurrence: t's post-transition type and
\* instant = t.unix_time + (naive - t.time).
C4_FoldLaterOccurrence ==
    (op = "_normalize" /\ arg.tzinfo = <<>>) =>
        \A i \in 1..NumTransitions :
            LET t == transitions[i]
            IN (t.time <= t.pre_time /\ t.time <= arg.wall /\ arg.wall <= t.pre_time) =>
                   ResolvedWith(t.transition_type, t.unix_time + (arg.wall - t.time))

\* C5: for every transition t whose wall clock jumps forward (first, middle
\* or last) and every naive value with t.pre_time < naive < t.time,
\* _normalize does not fail and resolves with t's post-transition type and
\* instant = t.unix_time - (t.pre_time - naive).
C5_GapPostType ==
    (op = "_normalize" /\ arg.tzinfo = <<>>) =>
        \A i \in 1..NumTransitions :
            LET t == transitions[i]
            IN (t.pre_time < t.time /\ t.pre_time < arg.wall /\ arg.wall < t.time) =>
                   ResolvedWith(t.transition_type, t.unix_time - (t.pre_time - arg.wall))

\* The wall-clock value lies strictly outside every transition's gap or fold.
InNonTransitioningPeriod(w) ==
    \A i \in 1..NumTransitions :
        LET t == transitions[i]
        IN w < Min(t.pre_time, t.time) \/ w > Max(t.pre_time, t.time)

\* C6: round trip: for every zone and every naive dt strictly inside a
\* non-transitioning period, _convert(_normalize(dt)) has dt's wall-clock
\* fields.
C6_RoundTrip ==
    (op = "_convert(_normalize)" /\ InNonTransitioningPeriod(arg.wall)) =>
        (res.kind = "datetime" /\ res.dt.wall = arg.wall)

\* The indices of the transitions at or before an instant.
AtOrBefore(target) == {i \in 1..NumTransitions : transitions[i].unix_time <= target}

\* The largest member of a non-empty set of integers.
MaxOf(S) == CHOOSE x \in S : \A y \in S : y <= x

\* C7: _convert of an aware input whose instant is target resolves with the
\* post-transition type of the last transition with unix_time <= target, and
\* with the default type when there is none.
C7_ConvertType ==
    (op = "_convert" /\ arg.tzinfo # <<>>) =>
        LET target == arg.wall - arg.tzinfo[1].offset
            S == AtOrBefore(target)
        IN ResolvedWith(IF S = {} THEN default_transition_type
                        ELSE transitions[MaxOf(S)].transition_type,
                        target)

\* C8: _normalize on a tagged input fails, and _convert and convert on an
\* untagged input fail, with ValueError: convert never treats an untagged
\* input as local time.
C8_InvalidArgument ==
    /\ (op = "_normalize" /\ arg.tzinfo # <<>>) => res.kind = "ValueError"
    /\ (op \in {"_convert", "convert"} /\ arg.tzinfo = <<>>) => res.kind = "ValueError"

\* C8, amended: _normalize on a tagged input and _convert on an untagged
\* input fail with ValueError; convert does not fail on an untagged input: it
\* takes it as local time and returns the datetime _normalize resolves it to,
\* and it converts a tagged input as _convert does.
C8_InvalidArgumentAmended ==
    /\ (op = "_normalize" /\ arg.tzinfo # <<>>) => res.kind = "ValueError"
    /\ (op = "_convert" /\ arg.tzinfo = <<>>) => res.kind = "ValueError"
    /\ (op = "convert" /\ arg.tzinfo = <<>>) =>
           /\ res.kind = "datetime"
           /\ res.dt.tzinfo # <<>>
           /\ res.dt.tzinfo[1].tz = "zone"
    /\ (op = "convert" /\ arg.tzinfo # <<>>) =>
           /\ res.kind = "datetime"
           /\ res.unix_time = arg.wall - arg.tzinfo[1].offset

\* C8 witness: _convert was called with an untagged datetime on a zone with
\* transitions and raised.
C8_Witness ==
    /\ op = "_convert"
    /\ arg.tzinfo = <<>>
    /\ NumTransitions >= 1
    /\ res.kind = "ValueError"

\* C9: for consecutive transitions prev and next (next possibly the last) and
\* a naive value with prev.time <= naive < next.time, in neither prev's fold
\* nor next's gap, _normalize resolves with prev's post-transition type and
\* instant = prev.unix_time + (naive - prev.time).
C9_InteriorPrevType ==
    (op = "_normalize" /\ arg.tzinfo = <<>>) =>
        \A i \in 1..(NumTransitions - 1) :
            LET prev == transitions[i]
                next == transitions[i + 1]
                w == arg.wall
            IN ( /\ prev.time <= w /\ w < next.time
                 /\ ~(prev.time <= w /\ w <= prev.pre_time)
                 /\ ~(next.pre_time <= w /\ w < next.time) ) =>
                   ResolvedWith(prev.transition_type, prev.unix_time + (w - prev.time))

\* C10: for every non-empty table (a single transition included) and every
\* naive value with naive >= last.time and naive > last.pre_time, _normalize
\* resolves with last's post-transition type and
\* instant = last.unix_time + (naive - last.time).
C10_AfterLast ==
    (op = "_normalize" /\ arg.tzinfo = <<>> /\ NumTransitions >= 1) =>
        LET last == transitions[NumTransitions]
        IN (arg.wall >= last.time /\ arg.wall > last.pre_time) =>
               ResolvedWith(last.transition_type, last.unix_time + (arg.wall - last.time))

====
